---- MODULE Spec2Model ----
(***************************************************************************)
(* Main-process control layer of the desktop client: the screen capture    *)
(* session (screen-snippet-handler), the IPC command dispatcher and the    *)
(* pod login flow (main-api-handler).                                      *)
(*                                                                         *)
(* JavaScript runs to completion between suspension points, so every       *)
(* action below is one synchronous segment of a handler: from its entry or *)
(* from the resumption of an await up to the next await or the return.     *)
(***************************************************************************)
EXTENDS Integers, Sequences, FiniteSets, TLC

\* ------------------------------------------------------------------ bounds
MaxCalls == 3         \* capture() and cancelCapture() calls in one behaviour
MaxDispatches == 2    \* messages dispatched in one behaviour of SpecDispatch
MaxProbes == 3        \* probe requests issued in one behaviour of SpecLogin
MaxAttemptProbes == 6  \* probe requests in one behaviour of SpecAttempts
MaxAttemptLogins == 3  \* browserLogin messages in one behaviour of SpecAttempts

\* --------------------------------------------------------------- constants
Platforms == {"mac", "win", "linux", "other"}
ValidSenders == {"window", "view"}     \* isValidWindow(..) || isValidView(..)
CaptureSenders == {"window", "view"}   \* the web contents that ask for a capture

VARIABLES
  \* environment of the capture session
  platform,                 \* isMac / isWindowsOS / isLinux / none of them
  isMana,                   \* windowHandler.isMana
  mainWindowExists,         \* windowHandler.getMainWindow() && windowExists(..)
  alwaysOnTop,              \* mainWindow.isAlwaysOnTop()
  aotBefore,                \* history: the setting before any capture began
  procs,                    \* every external process spawned so far
  files,                    \* temp files that exist on disk
  snippingWindow,           \* file the open snipping tool window is seeded with, 0 = closed
  listeners,                \* ipcMain.once('upload-snippet') registrations
  sent,                     \* 'screen-snippet-data' payloads delivered
  \* fields of class ScreenSnippet
  outputFileName,           \* 0 = undefined
  captureUtilArgs,
  child,                    \* 0 = undefined, else index in procs
  focusedWindow,            \* 0 = null
  shouldUpdateAlwaysOnTop,
  \* one entry per capture() / cancelCapture() invocation (an async call)
  attempts,
  \* fields of windowHandler the dispatcher assigns
  isOnline,
  isWebPageLoading,
  isLoggedIn,
  \* the last dispatch: the message, the collaborator calls it made, the log
  \* records it wrote, how the listener ended, and the stages of the listener
  \* it completed, in the order of the code
  last,
  calls,
  log,
  outcome,
  steps,
  \* the login flow
  urlFromCmd,               \* getCommandLineArgs(process.argv, '--url=', false)
  userConfig,               \* the stored user config
  formattedPodUrl,
  loginUrl,
  proxyDetails,
  credentialsPromise,       \* 0 = undefined, else index in promises
  resolutionCallback,       \* credentialsPromiseRefHolder.resolutionCallback
  promises,                 \* every credentials promise created so far
  probes,                   \* every fetch of the auth status issued so far
  prompts,                  \* every basic-auth window created so far
  mainWebContents,          \* "live", "destroyed", or "none" (undefined)
  mainOrigin,               \* the origin recorded by setMainWindowOrigin
  loaded,                   \* URLs loaded into the main web contents
  opened                    \* URLs opened with shell.openExternal

captureVars == <<platform, isMana, mainWindowExists, alwaysOnTop, aotBefore,
                 procs, files, snippingWindow, listeners, sent,
                 outputFileName, captureUtilArgs, child, focusedWindow,
                 shouldUpdateAlwaysOnTop, attempts>>
captureRest == <<platform, mainWindowExists, alwaysOnTop, aotBefore,
                 procs, files, snippingWindow, listeners, sent,
                 outputFileName, captureUtilArgs, child, focusedWindow,
                 shouldUpdateAlwaysOnTop, attempts>>
windowVars == <<isOnline, isWebPageLoading, isLoggedIn>>
dispatchVars == <<last, calls, log, outcome, steps>>
loginVars == <<urlFromCmd, userConfig, formattedPodUrl, loginUrl,
               proxyDetails, credentialsPromise, resolutionCallback, promises,
               probes, prompts, mainWebContents, mainOrigin, loaded, opened>>
otherThanCapture == <<windowVars, dispatchVars, loginVars>>
otherThanLogin == <<captureVars, windowVars, dispatchVars>>
otherThanLoginAndWindow ==
  <<platform, isMana, alwaysOnTop, aotBefore, procs, files, snippingWindow,
    listeners, sent, outputFileName, captureUtilArgs, child, focusedWindow,
    shouldUpdateAlwaysOnTop, attempts, windowVars, dispatchVars>>

vars == <<captureVars, windowVars, dispatchVars, loginVars>>

\* ------------------------------------------------------------- JS values
\* A value carries its typeof tag; a record is a JS object by its own
\* properties, and Get(a, k) is the property read a.k (undefined when absent).
Undef == [t |-> "undefined"]
Bool(b) == [t |-> "boolean", b |-> b]
Num(n) == [t |-> "number", n |-> n]
Str(s) == [t |-> "string", v |-> s]
Bytes(s) == [t |-> "string", bytes |-> s]     \* a string given by its bytes
Addr(l) == [t |-> "string", labels |-> l]     \* a host name given by its labels
Obj(r) == [t |-> "object", o |-> r]
Arr(s) == [t |-> "array", a |-> s]
EmptyObject == [k \in {} |-> Undef]
NoArg == Undef                                \* the message carries no payload

Get(a, k) == IF k \in DOMAIN a THEN a[k] ELSE Undef
TypeOf(x) == IF x.t = "array" THEN "object" ELSE x.t
Truthy(x) ==
  CASE x.t = "undefined" -> FALSE
    [] x.t = "boolean" -> x.b
    [] x.t = "number" -> x.n # 0
    [] x.t = "string" -> x # Str("") /\ x # Bytes(<<>>)
    [] OTHER -> TRUE
\* {...x}: the own properties of an object, the indexed elements of a string
\* or an array, nothing for undefined, a number or a boolean
Spread(x) ==
  IF x.t = "object" THEN x.o
  ELSE IF x.t \in {"string", "array"} THEN [elements |-> x]
  ELSE EmptyObject
\* arg.cmd as the switch sees it: only a string can equal a command tag
CmdOf(arg) ==
  IF "cmd" \in DOMAIN arg /\ "v" \in DOMAIN arg.cmd THEN arg.cmd.v
  ELSE "undefined"

\* JSON.stringify: a property whose value is undefined is left out, an
\* undefined array element is written as null
Null == [t |-> "null"]
RECURSIVE Serialise(_), SerialiseFields(_)
Serialise(x) ==
  CASE x.t = "object" -> Obj(SerialiseFields(x.o))
    [] x.t = "array" ->
         Arr([i \in DOMAIN x.a |->
                IF x.a[i].t = "undefined" THEN Null ELSE Serialise(x.a[i])])
    [] OTHER -> x
SerialiseFields(r) ==
  [k \in {j \in DOMAIN r : r[j].t # "undefined"} |-> Serialise(r[k])]

\* Buffer.from(bytes).toString('base64')
B64Char(i) ==
  IF i < 26 THEN 65 + i
  ELSE IF i < 52 THEN 97 + (i - 26)
  ELSE IF i < 62 THEN 48 + (i - 52)
  ELSE IF i = 62 THEN 43 ELSE 47
B64Pad == 61
RECURSIVE Base64(_)
Base64(s) ==
  IF Len(s) = 0 THEN <<>>
  ELSE IF Len(s) = 1 THEN
    <<B64Char(s[1] \div 4), B64Char((s[1] % 4) * 16), B64Pad, B64Pad>>
  ELSE IF Len(s) = 2 THEN
    <<B64Char(s[1] \div 4), B64Char((s[1] % 4) * 16 + s[2] \div 16),
      B64Char((s[2] % 16) * 4), B64Pad>>
  ELSE
    <<B64Char(s[1] \div 4), B64Char((s[1] % 4) * 16 + s[2] \div 16),
      B64Char((s[2] % 16) * 4 + s[3] \div 64), B64Char(s[3] % 64)>>
    \o Base64(SubSeq(s, 4, Len(s)))

\* ------------------------------------------------------------ dispatcher
OnCmds ==
  {"isOnline", "setBadgeCount", "registerProtocolHandler",
   "registerLogRetriever", "sendLogs", "badgeDataUrl", "activate",
   "registerLogger", "registerActivityDetection", "registerDownloadHandler",
   "showNotificationSettings", "sanitize", "bringToFront",
   "openScreenPickerWindow", "popupMenu", "setLocale", "keyPress",
   "getMyPresence", "openScreenSnippet", "closeScreenSnippet", "closeWindow",
   "openScreenSharingIndicator", "downloadManagerAction",
   "openDownloadedItem", "showDownloadedItem", "clearDownloadedItems",
   "restartApp", "setIsInMeeting", "memoryInfo", "getConfigUrl",
   "registerAnalyticsHandler", "setCloudConfig", "setIsMana",
   "showNotification", "closeNotification", "closeAllWrapperWindows",
   "setZoomLevel", "aboutAppClipBoardData", "closeMainWindow",
   "minimizeMainWindow", "maximizeMainWindow", "unmaximizeMainWindow",
   "browserLogin", "setBroadcastMessage", "handleSwiftSearchMessageEvents",
   "connectCloud9Pipe", "writeCloud9Pipe", "closeCloud9Pipe", "launchCloud9",
   "terminateCloud9", "updateAndRestart", "downloadUpdate", "checkForUpdates"}

HandleCmds ==
  {"getCurrentOriginUrl", "isAeroGlassEnabled",
   "showScreenSharePermissionDialog", "getMediaAccessStatus", "getSources",
   "getNativeWindowHandle", "getCitrixMediaRedirectionStatus"}

Hidden == Str("hidden")

\* HiddenSource with the thumbnail copied like the other properties
HiddenSourceWithThumbnail(src) ==
  Obj([name |-> Get(Spread(src), "name"), id |-> Get(Spread(src), "id"),
       thumbnail |-> Get(Spread(src), "thumbnail"),
       display_id |-> Get(Spread(src), "display_id"),
       appIcon |-> Get(Spread(src), "appIcon")])

\* one mapped element of arg.sources in logApiCallParams
HiddenSource(src) ==
  Obj([name |-> Get(Spread(src), "name"), id |-> Get(Spread(src), "id"),
       thumbnail |-> Hidden, display_id |-> Get(Spread(src), "display_id"),
       appIcon |-> Get(Spread(src), "appIcon")])

\* Buffer.from(x) accepts a string (given here by its bytes) and throws a
\* TypeError on undefined, a number or a boolean
BufferFromOk(x) == "bytes" \in DOMAIN x

\* the statements of logApiCallParams that throw a TypeError
LogThrows(arg) ==
  \/ /\ CmdOf(arg) = "openScreenPickerWindow"
     /\ \/ Get(arg, "sources").t # "array"
        \/ \E i \in DOMAIN Get(arg, "sources").a :
             Get(arg, "sources").a[i].t = "undefined"
  \/ /\ CmdOf(arg) = "writeCloud9Pipe"
     /\ ~BufferFromOk(Get(arg, "data"))

\* logApiCallParams with every command taking the default branch
logApiCallParamsDefaultOnly(arg) ==
  [level |-> "info", cmd |-> CmdOf(arg), props |-> SerialiseFields(arg)]

\* logApiCallParams: the object that is serialised into the log record
logApiCallParams(arg) ==
  LET c == CmdOf(arg)
      props ==
        CASE c = "showNotification" ->
               [title |-> Hidden, body |-> Hidden, data |-> Hidden]
                 @@ Spread(Get(arg, "notificationOpts"))
          [] c = "badgeDataUrl" -> [dataUrl |-> Hidden] @@ arg
          [] c = "openScreenPickerWindow" ->
               [sources |-> Arr([i \in DOMAIN arg.sources.a |->
                                   HiddenSource(arg.sources.a[i])])] @@ arg
          [] c = "sendLogs" -> [logFiles |-> Hidden] @@ Spread(Get(arg, "logs"))
          [] c = "writeCloud9Pipe" ->
               [data |-> Bytes(Base64(arg.data.bytes))] @@ arg
          [] OTHER -> arg
  IN [level |-> "info", cmd |-> c, props |-> SerialiseFields(props)]

Call(fn, args) == [fn |-> fn, args |-> args]

\* ------------------------------------------------------- capture session
NoArgs == [shape |-> "undefined", file |-> 0]

CaptureIds == {i \in DOMAIN attempts : attempts[i].kind = "capture"}
CancelIds == {i \in DOMAIN attempts : attempts[i].kind = "cancel"}

\* 'symphonyImage-' + Date.now() + '.png': a fresh name per capture
NextFileName == 1 + Cardinality({i \in CaptureIds : attempts[i].file # 0})

\* the argument vector per platform family
BuildArgs(f) ==
  IF platform = "mac" THEN [shape |-> "-i -s -t png <file>", file |-> f]
  ELSE IF platform = "win" THEN
    IF isMana THEN [shape |-> "--no-annotate <file> <locale>", file |-> f]
    ELSE [shape |-> "<file> <locale>", file |-> f]
  ELSE IF platform = "linux" THEN [shape |-> "-a -f <file>", file |-> f]
  ELSE [shape |-> "", file |-> 0]

\* BrowserWindow.getFocusedWindow(): the window focused when the call is made
FocusedNow == 1

\* child.kill(): the signal reaches only a process that has not exited
KillProc(ps, p) ==
  IF p # 0 /\ ps[p].status = "running"
  THEN [ps EXCEPT ![p].signalled = TRUE]
  ELSE ps

killChildProcess(ps) == IF child # 0 THEN KillProc(ps, child) ELSE ps

\* execFile(captureUtil, captureUtilArgs, callback)
execFile(ps, kind, args) ==
  Append(ps, [kind |-> kind, status |-> "running", signalled |-> FALSE,
              file |-> args.file])

\* updateAlwaysOnTop(v, false, false) of window-actions. It does no I/O, so
\* the `await` on it resumes in the same turn of the event loop: no other
\* handler runs in between (the suspension points are a process exit, a file
\* read, a network response and a credential submission).
updateAlwaysOnTop(v) == alwaysOnTop' = v

\* verifyAndUpdateAlwaysOnTop(), lines 258-263
verifyAndUpdateAlwaysOnTop ==
  IF shouldUpdateAlwaysOnTop
  THEN /\ updateAlwaysOnTop(TRUE)
       /\ shouldUpdateAlwaysOnTop' = FALSE
  ELSE UNCHANGED <<alwaysOnTop, shouldUpdateAlwaysOnTop>>

NewAttempt(kind, pc, w, f, p) ==
  [kind |-> kind, pc |-> pc, web |-> w, file |-> f, proc |-> p, reading |-> 0]

\* capture(webContents), lines 63-107: up to `await this.execCmd(..)`
Capture(w) ==
  /\ IF mainWindowExists /\ platform = "win"
     THEN /\ shouldUpdateAlwaysOnTop' = alwaysOnTop
          /\ IF alwaysOnTop THEN updateAlwaysOnTop(FALSE)
             ELSE UNCHANGED alwaysOnTop
     ELSE UNCHANGED <<shouldUpdateAlwaysOnTop, alwaysOnTop>>
  /\ LET f == NextFileName
         args == BuildArgs(f)
         \* only allow one screen capture at a time
         killed == IF child # 0 THEN killChildProcess(procs) ELSE procs
     IN /\ outputFileName' = f
        /\ captureUtilArgs' = args
        /\ focusedWindow' = FocusedNow
        /\ procs' = execFile(killed, "capture", args)
        /\ child' = Len(procs) + 1
        /\ attempts' = Append(attempts,
                          NewAttempt("capture", "exec", w, f, Len(procs) + 1))
  /\ UNCHANGED <<platform, isMana, mainWindowExists, aotBefore, files,
                 snippingWindow, listeners, sent>>

\* cancelCapture(), lines 136-144: up to `await this.execCmd(..)`
CancelCapture ==
  /\ platform = "win"
  /\ focusedWindow' = FocusedNow
  /\ procs' = execFile(procs, "cancel", [shape |-> "", file |-> 0])
  /\ child' = Len(procs) + 1
  /\ attempts' = Append(attempts,
                    NewAttempt("cancel", "exec", "none", 0, Len(procs) + 1))
  /\ UNCHANGED <<platform, isMana, mainWindowExists, alwaysOnTop, aotBefore,
                 files, snippingWindow, listeners, sent, outputFileName,
                 captureUtilArgs, shouldUpdateAlwaysOnTop>>

\* killChildProcess() called from outside (application reload)
KillChildProcess ==
  /\ child # 0
  /\ procs[child].status = "running"
  /\ ~procs[child].signalled
  /\ procs' = killChildProcess(procs)
  /\ UNCHANGED <<platform, isMana, mainWindowExists, alwaysOnTop, aotBefore,
                 files, snippingWindow, listeners, sent, outputFileName,
                 captureUtilArgs, child, focusedWindow,
                 shouldUpdateAlwaysOnTop, attempts>>

Awaiting(p) == CHOOSE i \in DOMAIN attempts : attempts[i].proc = p

\* the catch blocks of capture() and cancelCapture(), and cancelCapture's try:
\* lines 125-130 and 145-151
CatchOrCancelDone(i) ==
  /\ verifyAndUpdateAlwaysOnTop
  /\ attempts' = [attempts EXCEPT ![i].pc = "done"]
  /\ UNCHANGED <<snippingWindow, listeners, sent>>

\* capture() after `await this.execCmd(..)` resolved, lines 108-119
AfterExec(i, disk) ==
  IF attempts[i].kind = "cancel" THEN CatchOrCancelDone(i)
  ELSE IF isMana THEN
    \* closeSnippingToolWindow(); getImageSize() throws when the file is missing
    IF outputFileName \in disk
    THEN /\ snippingWindow' = outputFileName
         /\ listeners' = Append(listeners, i)
         /\ attempts' = [attempts EXCEPT ![i].pc = "upload"]
         /\ UNCHANGED <<alwaysOnTop, shouldUpdateAlwaysOnTop, sent>>
    ELSE /\ snippingWindow' = 0
         /\ verifyAndUpdateAlwaysOnTop
         /\ attempts' = [attempts EXCEPT ![i].pc = "done"]
         /\ UNCHANGED <<listeners, sent>>
  ELSE \* convertFileToData() up to `await readFile(this.outputFileName)`
    /\ attempts' = [attempts EXCEPT ![i].pc = "read", ![i].reading = outputFileName]
    /\ UNCHANGED <<alwaysOnTop, shouldUpdateAlwaysOnTop, snippingWindow,
                   listeners, sent>>

\* the tool exits without having been killed: execFile's callback resolves
ProcExit(p, wrote) ==
  /\ p \in DOMAIN procs
  /\ procs[p].status = "running"
  /\ ~procs[p].signalled
  /\ procs' = [procs EXCEPT ![p].status = "exited"]
  /\ LET disk == IF wrote /\ procs[p].file # 0 THEN files \cup {procs[p].file}
                 ELSE files
     IN /\ files' = disk
        /\ AfterExec(Awaiting(p), disk)
  /\ UNCHANGED <<platform, isMana, mainWindowExists, aotBefore, outputFileName,
                 captureUtilArgs, child, focusedWindow>>

\* the tool dies of the kill signal: error.killed, the promise rejects
ProcKilled(p) ==
  /\ p \in DOMAIN procs
  /\ procs[p].status = "running"
  /\ procs[p].signalled
  /\ procs' = [procs EXCEPT ![p].status = "killed"]
  /\ CatchOrCancelDone(Awaiting(p))
  /\ UNCHANGED <<platform, isMana, mainWindowExists, aotBefore, files,
                 outputFileName, captureUtilArgs, child, focusedWindow>>

\* the payload convertFileToData() returns for the file it read
FilePayload(i, f, disk) ==
  IF f \in disk
  THEN [to |-> attempts[i].web, attempt |-> i, message |-> "success",
        data |-> f, type |-> "image/png;base64"]
  ELSE [to |-> attempts[i].web, attempt |-> i,
        message |-> "file does not exist", data |-> 0, type |-> "ERROR"]

\* deleteFile(filePath): fs.unlink
deleteFile(disk, f) == disk \ {f}

\* convertFileToData() after readFile settled, then capture() lines 120-124
ReadDone(i) ==
  /\ i \in CaptureIds
  /\ attempts[i].pc = "read"
  /\ sent' = Append(sent, FilePayload(i, attempts[i].reading, files))
  \* finally: deleteFile(this.outputFileName)
  /\ files' = IF outputFileName # 0 THEN deleteFile(files, outputFileName)
              ELSE files
  /\ verifyAndUpdateAlwaysOnTop
  /\ attempts' = [attempts EXCEPT ![i].pc = "done"]
  /\ UNCHANGED <<platform, isMana, mainWindowExists, aotBefore, procs,
                 snippingWindow, listeners, outputFileName, captureUtilArgs,
                 child, focusedWindow>>

\* the snipping tool window emits 'upload-snippet' with the path it was
\* seeded with: every registered once-listener runs (lines 290-312)
UploadSnippet ==
  /\ snippingWindow # 0
  /\ listeners # <<>>
  /\ LET path == snippingWindow
         fired == {listeners[k] : k \in DOMAIN listeners}
         payloads == [k \in DOMAIN listeners |->
                        [to |-> attempts[listeners[k]].web,
                         attempt |-> listeners[k], message |-> "SUCCESS",
                         data |-> path, type |-> "data:image/png;base64"]]
     IN /\ sent' = sent \o payloads
        /\ verifyAndUpdateAlwaysOnTop
        /\ attempts' = [i \in DOMAIN attempts |->
              IF i \in fired THEN [attempts[i] EXCEPT !.pc = "done"]
              ELSE attempts[i]]
        /\ files' = deleteFile(files, path)
  /\ snippingWindow' = 0
  /\ listeners' = <<>>
  /\ UNCHANGED <<platform, isMana, mainWindowExists, aotBefore, procs,
                 outputFileName, captureUtilArgs, child, focusedWindow>>

\* ------------------------------------------------------------- pod login
\* a host name is kept as its list of labels, a URL as the text built from it
RECURSIVE JoinLabels(_)
JoinLabels(l) ==
  IF Len(l) = 0 THEN ""
  ELSE IF Len(l) = 1 THEN l[1]
  ELSE l[1] \o "." \o JoinLabels(Tail(l))

\* whitelistHandler.parseDomain(url): the last label is the top-level domain
\* (with its dot), the one before it the domain, the rest the subdomain
parseDomain(url) ==
  LET l == url.labels
      n == Len(l)
  IN [subdomain |-> JoinLabels(SubSeq(l, 1, n - 2)),
      domain |-> l[n - 1],
      tld |-> "." \o l[n]]

\* FormatPodUrl with the domain written twice, as if the parsed subdomain
\* still carried it
FormatPodUrlDomainTwice(podUrl) ==
  LET p == parseDomain(podUrl)
  IN "https://" \o p.subdomain \o "." \o p.domain \o "." \o p.domain \o p.tld

\* `https://${subdomain}.${domain}${tld}`
FormatPodUrl(podUrl) ==
  LET p == parseDomain(podUrl)
  IN "https://" \o p.subdomain \o "." \o p.domain \o p.tld

getBrowserLoginUrl(pod) ==
  pod \o "/login/sso/initsso?RelayState=" \o pod
      \o "/client-bff/device-login/index.html?callbackScheme=symphony&action=login"

AUTH_STATUS_PATH == "/login/checkauth?type=user"

\* config.getGlobalConfigFields(['url'])
globalConfigURL == Addr(<<"corp", "symphony", "com">>)

\* urlFromCmd.substr(6): the argument without its '--url=' prefix
Substr6(arg) == Addr(arg.labels)

\* the user config after the updateUserConfig calls of lines 407-414
UpdatedUserConfig(arg) ==
  [browserLoginAutoConnect |-> Get(arg, "browserLoginAutoConnect"),
   url |-> IF ~Truthy(Get(arg, "isPodConfigured")) THEN Get(arg, "newPodUrl")
           ELSE userConfig.url]

\* PodUrl with the first two alternatives of lines 418-422 exchanged: the user
\* config is asked before the command line
PodUrlUserConfigFirst(cfg) ==
  IF Truthy(cfg.url) THEN cfg.url
  ELSE IF Truthy(urlFromCmd) THEN Substr6(urlFromCmd)
  ELSE globalConfigURL

\* lines 415-422: command line first, then user config, then global config
PodUrl(cfg) ==
  IF Truthy(urlFromCmd) THEN Substr6(urlFromCmd)
  ELSE IF Truthy(cfg.url) THEN cfg.url
  ELSE globalConfigURL

\* fetch(`${formattedPodUrl}${AUTH_STATUS_PATH}`, onLogin) of loadPodUrl
NewProbe(origin, proxyLogin) ==
  [origin |-> origin, url |-> origin \o AUTH_STATUS_PATH,
   proxyLogin |-> proxyLogin, status |-> "pending", challenged |-> FALSE,
   awaits |-> 0, supplied |-> Undef, result |-> "none"]

\* case apiCmds.browserLogin, lines 406-432
BrowserLogin(arg) ==
  LET cfg == UpdatedUserConfig(arg)
      origin == FormatPodUrl(PodUrl(cfg))
  IN /\ userConfig' = cfg
     /\ formattedPodUrl' = origin
     /\ loginUrl' = getBrowserLoginUrl(origin)
     /\ probes' = Append(probes, NewProbe(origin, FALSE))
     /\ UNCHANGED <<urlFromCmd, proxyDetails, credentialsPromise,
                    resolutionCallback, promises, prompts, mainWebContents,
                    mainOrigin, loaded, opened>>

BrowserLoginLog(arg) ==
  [level |-> "info", cmd |-> "browserLogin",
   props |-> [text |-> Str("check if sso is enabled for the pod"),
              value |-> Str(FormatPodUrl(PodUrl(UpdatedUserConfig(arg))))]]

AuthTypes == {"sso", "password"}

\* ProbeSuccess without the test of authenticationType: the origin is loaded
\* whatever the response says
ProbeSuccessAlwaysLoads(p, authType) ==
  /\ probes[p].status = "pending"
  /\ probes' = [probes EXCEPT ![p].status = "done", ![p].result = authType]
  /\ IF mainWebContents = "live"
     THEN /\ mainOrigin' = formattedPodUrl
          /\ loaded' = Append(loaded, formattedPodUrl)
          /\ UNCHANGED opened
     ELSE UNCHANGED <<mainOrigin, loaded, opened>>
  /\ UNCHANGED <<urlFromCmd, userConfig, formattedPodUrl, loginUrl,
                 proxyDetails, credentialsPromise, resolutionCallback,
                 promises, prompts, mainWebContents>>

\* loadPodUrl, lines 666-688: the probe got its JSON response
ProbeSuccess(p, authType) ==
  /\ probes[p].status = "pending"
  /\ probes' = [probes EXCEPT ![p].status = "done", ![p].result = authType]
  /\ IF authType = "sso"
     THEN /\ opened' = Append(opened, loginUrl)
          /\ UNCHANGED <<mainOrigin, loaded>>
     ELSE IF mainWebContents = "live"
     THEN /\ mainOrigin' = formattedPodUrl
          /\ loaded' = Append(loaded, formattedPodUrl)
          /\ UNCHANGED opened
     ELSE UNCHANGED <<mainOrigin, loaded, opened>>
  /\ UNCHANGED <<urlFromCmd, userConfig, formattedPodUrl, loginUrl,
                 proxyDetails, credentialsPromise, resolutionCallback,
                 promises, prompts, mainWebContents>>

ProbeErrors == {"PROXY_AUTH_FAILED", "ERR_TOO_MANY_RETRIES", "ENOTFOUND"}

\* NeedsCredentials without the proxyLogin test of line 692: retry exhaustion
\* starts the credential cycle whatever the attempt was
NeedsCredentialsAnyAttempt(p, err) ==
  \/ err = "PROXY_AUTH_FAILED"
  \/ err = "ERR_TOO_MANY_RETRIES"

\* the condition of lines 690-693
NeedsCredentials(p, err) ==
  \/ err = "PROXY_AUTH_FAILED"
  \/ err = "ERR_TOO_MANY_RETRIES" /\ probes[p].proxyLogin

\* ProbeFail without line 711: the retry counter is not incremented when the
\* prompt is created
ProbeFailKeepsRetries(p, err) ==
  /\ probes[p].status = "pending"
  /\ probes' = [probes EXCEPT ![p].status = "failed", ![p].result = err]
  /\ IF NeedsCredentials(p, err)
     THEN /\ promises' = Append(promises, [resolved |-> 0])
          /\ credentialsPromise' = Len(promises) + 1
          /\ resolutionCallback' = Len(promises) + 1
          /\ prompts' = Append(prompts,
                          [hostname |-> proxyDetails.hostname,
                           isValidCredentials |-> proxyDetails.retries = 0,
                           answered |-> FALSE, probe |-> p,
                           promise |-> Len(promises) + 1])
          /\ UNCHANGED proxyDetails
     ELSE UNCHANGED <<promises, credentialsPromise, resolutionCallback,
                      prompts, proxyDetails>>
  /\ UNCHANGED <<urlFromCmd, userConfig, formattedPodUrl, loginUrl,
                 mainWebContents, mainOrigin, loaded, opened>>

\* ProbeFail starting the retry count afresh for a probe that is not a
\* re-issued one, as if the counter belonged to one login session
ProbeFailCountsPerSession(p, err) ==
  /\ probes[p].status = "pending"
  /\ probes' = [probes EXCEPT ![p].status = "failed", ![p].result = err]
  /\ IF NeedsCredentials(p, err)
     THEN /\ promises' = Append(promises, [resolved |-> 0])
          /\ credentialsPromise' = Len(promises) + 1
          /\ resolutionCallback' = Len(promises) + 1
          /\ prompts' = Append(prompts,
                          [hostname |-> proxyDetails.hostname,
                           isValidCredentials |->
                             proxyDetails.retries = 0 \/ ~probes[p].proxyLogin,
                           answered |-> FALSE, probe |-> p,
                           promise |-> Len(promises) + 1])
          /\ proxyDetails' =
               [proxyDetails EXCEPT
                  !.retries = IF probes[p].proxyLogin THEN @ + 1 ELSE 1]
     ELSE UNCHANGED <<promises, credentialsPromise, resolutionCallback,
                      prompts, proxyDetails>>
  /\ UNCHANGED <<urlFromCmd, userConfig, formattedPodUrl, loginUrl,
                 mainWebContents, mainOrigin, loaded, opened>>

\* loadPodUrl, lines 689-713: the probe failed
ProbeFail(p, err) ==
  /\ probes[p].status = "pending"
  /\ probes' = [probes EXCEPT ![p].status = "failed", ![p].result = err]
  /\ IF NeedsCredentials(p, err)
     THEN /\ promises' = Append(promises, [resolved |-> 0])
          /\ credentialsPromise' = Len(promises) + 1
          /\ resolutionCallback' = Len(promises) + 1
          /\ prompts' = Append(prompts,
                          [hostname |-> proxyDetails.hostname,
                           isValidCredentials |-> proxyDetails.retries = 0,
                           answered |-> FALSE, probe |-> p,
                           promise |-> Len(promises) + 1])
          /\ proxyDetails' = [proxyDetails EXCEPT !.retries = @ + 1]
     ELSE UNCHANGED <<promises, credentialsPromise, resolutionCallback,
                      prompts, proxyDetails>>
  /\ UNCHANGED <<urlFromCmd, userConfig, formattedPodUrl, loginUrl,
                 mainWebContents, mainOrigin, loaded, opened>>

Credentials == {[username |-> "alice", password |-> "pw1"],
                [username |-> "bob", password |-> "pw2"]}

\* `await credentialsPromise` of the hooks suspended on promise i continues
\* as soon as the callback that resolved it has returned, before any other
\* event is handled: each of them supplies the credentials just stored
Resumed(ps, i, cred) ==
  [q \in DOMAIN ps |->
     IF ps[q].status = "challenged" /\ ps[q].awaits = i
     THEN [ps[q] EXCEPT !.status = "pending",
                        !.supplied = [username |-> cred.username,
                                      password |-> cred.password]]
     ELSE ps[q]]

\* SubmitCredentials re-issuing the flow as loadPodUrl() instead of
\* loadPodUrl(true): the new probe has no proxy-authentication hook
SubmitCredentialsWithoutHook(k, cred) ==
  /\ ~prompts[k].answered
  /\ prompts' = [prompts EXCEPT ![k].answered = TRUE]
  /\ proxyDetails' = [proxyDetails EXCEPT !.username = cred.username,
                                          !.password = cred.password]
  /\ promises' = [promises EXCEPT ![resolutionCallback].resolved = @ + 1]
  /\ probes' = Append(Resumed(probes, resolutionCallback, cred),
                       NewProbe(formattedPodUrl, FALSE))
  /\ UNCHANGED <<urlFromCmd, userConfig, formattedPodUrl, loginUrl,
                 credentialsPromise, resolutionCallback, mainWebContents,
                 mainOrigin, loaded, opened>>

\* the callback handed to createBasicAuthWindow, lines 704-709
SubmitCredentials(k, cred) ==
  /\ ~prompts[k].answered
  /\ prompts' = [prompts EXCEPT ![k].answered = TRUE]
  /\ proxyDetails' = [proxyDetails EXCEPT !.username = cred.username,
                                          !.password = cred.password]
  /\ promises' = [promises EXCEPT ![resolutionCallback].resolved = @ + 1]
  /\ probes' = Append(Resumed(probes, resolutionCallback, cred),
                       NewProbe(formattedPodUrl, TRUE))
  /\ UNCHANGED <<urlFromCmd, userConfig, formattedPodUrl, loginUrl,
                 credentialsPromise, resolutionCallback, mainWebContents,
                 mainOrigin, loaded, opened>>

ProxyHosts == {"proxy.corp"}

\* `await credentialsPromise` does not suspend across events when the value
\* is undefined or a promise that is already resolved
Settled(i) == i = 0 \/ promises[i].resolved > 0

\* onLogin(authInfo), lines 654-662: the proxy challenges the probe. The hook
\* awaits the credentials promise that is current at that moment; when it is
\* settled the hook answers in the same turn with the stored credentials,
\* otherwise the probe stays suspended until that promise is resolved
ProbeChallenge(p, host) ==
  /\ probes[p].status = "pending"
  /\ probes[p].proxyLogin
  /\ ~probes[p].challenged
  /\ proxyDetails' = [proxyDetails EXCEPT !.hostname = host]
  /\ probes' =
       IF Settled(credentialsPromise)
       THEN [probes EXCEPT ![p].challenged = TRUE,
                           ![p].awaits = credentialsPromise,
                           ![p].supplied =
                             [username |-> proxyDetails.username,
                              password |-> proxyDetails.password]]
       ELSE [probes EXCEPT ![p].status = "challenged",
                           ![p].challenged = TRUE,
                           ![p].awaits = credentialsPromise]
  /\ UNCHANGED <<urlFromCmd, userConfig, formattedPodUrl, loginUrl,
                 credentialsPromise, resolutionCallback, promises, prompts,
                 mainWebContents, mainOrigin, loaded, opened>>

\* the main window is closed: its web contents are destroyed
DestroyMainWebContents ==
  /\ mainWebContents = "live"
  /\ mainWebContents' = "destroyed"
  /\ mainWindowExists' = FALSE
  /\ UNCHANGED <<urlFromCmd, userConfig, formattedPodUrl, loginUrl,
                 proxyDetails, credentialsPromise, resolutionCallback,
                 promises, probes, prompts, mainOrigin, loaded, opened>>

\* mainWebContents && !mainWebContents.isDestroyed()
MainWebContentsUsable == mainWebContents = "live"
Focus ==
  IF MainWebContentsUsable THEN <<Call("mainWebContents.focus", <<>>)>> ELSE <<>>
ViaMainWindow(fn) == IF mainWindowExists THEN <<Call(fn, <<>>)>> ELSE <<>>

AutoUpdateTriggers == {Str("MANUAL"), Str("AUTOMATED")}

\* the collaborator calls made by the case of the switch (lines 122-475) that
\* arg.cmd selects; the capture session and the login flow are not
\* collaborators but part of this model (see HandlerOn). windowHandler.appMenu
\* is taken to exist.
HandlerCalls(sender, arg) ==
  LET c == CmdOf(arg)
      S == Str(sender)
      A(k) == Get(arg, k)
      Is(k, ty) == TypeOf(Get(arg, k)) = ty
  IN
  CASE c = "setBadgeCount" ->
         IF Is("count", "number")
         THEN <<Call("showBadgeCount", <<A("count")>>),
                Call("presenceStatusStore.setNotificationCount", <<A("count")>>)>>
         ELSE <<>>
    [] c = "registerProtocolHandler" ->
         <<Call("protocolHandler.setPreloadWebContents", <<S>>),
           Call("windowHandler.updateVersionInfo", <<>>)>>
    [] c = "registerLogRetriever" ->
         <<Call("registerLogRetriever", <<S, A("logName")>>)>>
    [] c = "sendLogs" -> <<Call("finalizeLogExports", <<A("logs")>>)>>
    [] c = "badgeDataUrl" ->
         IF Is("dataUrl", "string") /\ Is("count", "number") /\ A("count").n > 0
         THEN <<Call("setDataUrl", <<A("dataUrl"), A("count")>>)>>
         ELSE <<>>
    [] c = "activate" ->
         IF Is("windowName", "string")
         THEN <<Call("activate", <<A("windowName")>>)>> ELSE <<>>
    [] c = "registerLogger" -> <<Call("logger.setLoggerWindow", <<S>>)>>
    [] c = "registerActivityDetection" ->
         IF Is("period", "number")
         THEN <<Call("activityDetection.setWindowAndThreshold", <<S, A("period")>>)>>
         ELSE <<>>
    [] c = "registerDownloadHandler" -> <<Call("downloadHandler.setWindow", <<S>>)>>
    [] c = "showNotificationSettings" ->
         IF Is("windowName", "string")
         THEN <<Call("windowHandler.createNotificationSettingsWindow",
                     <<A("windowName"),
                       IF Truthy(A("theme")) THEN A("theme") ELSE Str("light")>>)>>
         ELSE <<>>
    [] c = "sanitize" ->
         IF Is("windowName", "string")
         THEN <<Call("sanitize", <<A("windowName")>>)>> ELSE <<>>
    [] c = "bringToFront" ->
         IF A("reason") = Str("notification")
         THEN <<Call("activate if config.bringToFront is ENABLED",
                     <<A("windowName"), Bool(FALSE)>>)>>
         ELSE <<>>
    [] c = "openScreenPickerWindow" ->
         IF A("sources").t = "array" /\ Is("id", "number")
         THEN <<Call("windowHandler.createScreenPickerWindow",
                     <<S, A("sources"), A("id")>>)>>
         ELSE <<>>
    [] c = "popupMenu" ->
         IF sender = "window" /\ mainWindowExists
         THEN <<Call("showPopupMenu", <<S>>)>> \o Focus ELSE <<>>
    [] c = "setLocale" ->
         IF Is("locale", "string")
         THEN <<Call("updateLocale", <<A("locale")>>)>> ELSE <<>>
    [] c = "keyPress" ->
         IF Is("keyCode", "number")
         THEN <<Call("handleKeyPress", <<A("keyCode")>>)>> ELSE <<>>
    [] c = "getMyPresence" ->
         <<Call("presenceStatus.setMyPresence", <<A("status")>>)>>
    [] c = "closeWindow" ->
         <<Call("windowHandler.closeWindow", <<A("windowType"), A("winKey")>>)>>
    [] c = "openScreenSharingIndicator" ->
         IF Is("displayId", "string") /\ Is("id", "number")
         THEN <<Call("windowHandler.createScreenSharingIndicatorWindow",
                     <<S, A("displayId"), A("id"), A("streamId")>>)>>
         ELSE <<>>
    [] c = "downloadManagerAction" ->
         IF Is("path", "string")
         THEN <<Call("downloadManagerAction", <<A("type"), A("path")>>)>>
         ELSE <<>>
    [] c = "openDownloadedItem" ->
         IF Is("id", "string")
         THEN <<Call("downloadHandler.openFile", <<A("id")>>)>> ELSE <<>>
    [] c = "showDownloadedItem" ->
         IF Is("id", "string")
         THEN <<Call("downloadHandler.showInFinder", <<A("id")>>)>> ELSE <<>>
    [] c = "clearDownloadedItems" ->
         <<Call("downloadHandler.clearDownloadedItems", <<>>)>>
    [] c = "restartApp" -> <<Call("appStateHandler.restart", <<>>)>>
    [] c = "setIsInMeeting" ->
         IF Is("isInMeeting", "boolean")
         THEN <<Call("memoryMonitor.setMeetingStatus", <<A("isInMeeting")>>),
                Call("appStateHandler.preventDisplaySleep", <<A("isInMeeting")>>)>>
              \o (IF ~A("isInMeeting").b
                  THEN <<Call("windowHandler.closeScreenPickerWindow", <<>>),
                         Call("windowHandler.closeScreenSharingIndicator", <<>>)>>
                  ELSE <<>>)
         ELSE <<>>
    [] c = "memoryInfo" ->
         IF Is("memoryInfo", "object")
         THEN <<Call("memoryMonitor.setMemoryInfo", <<A("memoryInfo")>>)>>
         ELSE <<>>
    [] c = "registerAnalyticsHandler" ->
         <<Call("analytics.registerPreloadWindow", <<S>>)>>
    [] c = "setCloudConfig" ->
         <<Call("updateFeaturesForCloudConfig", <<A("cloudConfig")>>),
           Call("appMenu.buildMenu", <<>>)>>
    [] c = "setIsMana" ->
         IF Is("isMana", "boolean")
         THEN (IF mainWebContents # "none"
               THEN <<Call("presenceStatus.createThumbarButtons", <<>>),
                      Call("presenceStatus.updateSystemTrayPresence", <<>>)>>
                    \o ViaMainWindow("mainWindow.setThumbarButtons")
               ELSE <<>>)
              \o (IF A("isMana").b THEN <<Call("appMenu.buildMenu", <<>>)>>
                  ELSE <<>>)
         ELSE <<>>
    [] c = "showNotification" ->
         IF Is("notificationOpts", "object")
         THEN <<Call("notificationHelper.showNotification",
                     <<A("notificationOpts")>>)>>
         ELSE <<>>
    [] c = "closeNotification" ->
         IF Is("notificationId", "number")
         THEN <<Call("notificationHelper.closeNotification",
                     <<A("notificationId")>>)>>
         ELSE <<>>
    [] c = "closeAllWrapperWindows" ->
         <<Call("windowHandler.closeAllWindows", <<>>),
           Call("terminateC9Shell", <<>>)>>
         \o ViaMainWindow("mainWindow.setThumbarButtons")
         \o <<Call("presenceStatus.onSignOut", <<>>)>>
    [] c = "setZoomLevel" ->
         IF Is("zoomLevel", "number") /\ MainWebContentsUsable
         THEN <<Call("mainWebContents.setZoomFactor", <<A("zoomLevel")>>)>>
         ELSE <<>>
    [] c = "aboutAppClipBoardData" ->
         IF Truthy(A("clipboard")) /\ Truthy(A("clipboardType"))
         THEN <<Call("clipboard.write", <<A("clipboard"), A("clipboardType")>>)>>
         ELSE <<>>
    [] c = "closeMainWindow" -> Focus \o ViaMainWindow("mainWindow.close")
    [] c = "minimizeMainWindow" -> Focus \o ViaMainWindow("mainWindow.minimize")
    [] c = "maximizeMainWindow" -> ViaMainWindow("mainWindow.maximize") \o Focus
    [] c = "unmaximizeMainWindow" ->
         ViaMainWindow("mainWindow.unmaximize") \o Focus
    \* swiftSearchInstance is undefined (lines 58-67): both cases do nothing
    [] c = "setBroadcastMessage" -> <<>>
    [] c = "handleSwiftSearchMessageEvents" -> <<>>
    [] c = "connectCloud9Pipe" -> <<Call("connectC9Pipe", <<S, A("pipe")>>)>>
    [] c = "writeCloud9Pipe" -> <<Call("writeC9Pipe", <<A("data")>>)>>
    [] c = "closeCloud9Pipe" -> <<Call("closeC9Pipe", <<>>)>>
    [] c = "launchCloud9" -> <<Call("loadC9Shell", <<S>>)>>
    [] c = "terminateCloud9" -> <<Call("terminateC9Shell", <<>>)>>
    [] c = "updateAndRestart" -> <<Call("autoUpdate.updateAndRestart", <<>>)>>
    [] c = "downloadUpdate" -> <<Call("autoUpdate.downloadUpdate", <<>>)>>
    [] c = "checkForUpdates" ->
         IF A("autoUpdateTrigger") \in AutoUpdateTriggers
         THEN <<Call("autoUpdate.checkUpdates", <<A("autoUpdateTrigger")>>)>>
         ELSE <<Call("autoUpdate.checkUpdates", <<>>)>>
    [] OTHER -> <<>>

\* the logger.info lines written inside the cases of the switch
HandlerLog(arg) ==
  LET c == CmdOf(arg)
      Info(text, v) == <<[level |-> "info", cmd |-> c,
                          props |-> [text |-> Str(text), value |-> v]]>>
  IN
  CASE c = "setBadgeCount" /\ TypeOf(Get(arg, "count")) = "number" ->
         Info("show and update count", arg.count)
    [] c = "badgeDataUrl" /\ TypeOf(Get(arg, "dataUrl")) = "string"
         /\ TypeOf(Get(arg, "count")) = "number" /\ Get(arg, "count").n > 0 ->
         Info("set badge count", arg.count)
    [] c = "getMyPresence" -> Info("get presence from C2 to set in SDA", Undef)
    [] c = "setIsMana" /\ TypeOf(Get(arg, "isMana")) = "boolean" ->
         (IF mainWebContents # "none"
          THEN Info("Add actions preview menu", Undef) ELSE <<>>)
         \o Info("isMana", arg.isMana)
    [] OTHER -> <<>>

\* HandlerState with the default case falling into the assignment of sanitize
HandlerStateDefaultFallsThrough(arg) ==
  LET c == CmdOf(arg) IN
  /\ isOnline' = IF c = "isOnline" /\ TypeOf(Get(arg, "isOnline")) = "boolean"
                 THEN arg.isOnline.b ELSE isOnline
  /\ isWebPageLoading' = IF c = "registerProtocolHandler" THEN FALSE
                         ELSE IF c = "sanitize" \/ c \notin OnCmds THEN TRUE
                         ELSE isWebPageLoading
  /\ isLoggedIn' = IF c = "registerProtocolHandler" THEN TRUE ELSE isLoggedIn

\* the fields of windowHandler the cases of the switch assign
HandlerState(arg) ==
  LET c == CmdOf(arg) IN
  /\ isOnline' = IF c = "isOnline" /\ TypeOf(Get(arg, "isOnline")) = "boolean"
                 THEN arg.isOnline.b ELSE isOnline
  /\ isWebPageLoading' = IF c = "registerProtocolHandler" THEN FALSE
                         ELSE IF c = "sanitize" THEN TRUE
                         ELSE isWebPageLoading
  /\ isLoggedIn' = IF c = "registerProtocolHandler" THEN TRUE ELSE isLoggedIn

\* ------------------------------------------------------ message universe
\* a well-formed payload for each command (the fields its case reads)
GoodFields(c) ==
  CASE c = "isOnline" -> [isOnline |-> Bool(FALSE)]
    [] c = "setBadgeCount" -> [count |-> Num(3)]
    [] c = "registerLogRetriever" -> [logName |-> Str("app")]
    [] c = "sendLogs" ->
         [logs |-> Obj([logName |-> Str("app"),
                        logFiles |-> Arr(<<Str("log line A")>>)])]
    [] c = "badgeDataUrl" ->
         [dataUrl |-> Str("data:image/png;A"), count |-> Num(3)]
    [] c = "activate" -> [windowName |-> Str("main")]
    [] c = "registerActivityDetection" -> [period |-> Num(60)]
    [] c = "showNotificationSettings" ->
         [windowName |-> Str("main"), theme |-> Str("dark")]
    [] c = "sanitize" -> [windowName |-> Str("main")]
    [] c = "bringToFront" ->
         [windowName |-> Str("main"), reason |-> Str("notification")]
    [] c = "openScreenPickerWindow" ->
         [sources |-> Arr(<<Obj([name |-> Str("Screen 1"),
                                 id |-> Str("screen:0"),
                                 thumbnail |-> Str("thumbnail A"),
                                 display_id |-> Str("0")])>>),
          id |-> Num(1)]
    [] c = "setLocale" -> [locale |-> Str("en-US")]
    [] c = "keyPress" -> [keyCode |-> Num(18)]
    [] c = "getMyPresence" -> [status |-> Str("AVAILABLE")]
    [] c = "openScreenSnippet" -> [hideOnCapture |-> Bool(FALSE)]
    [] c = "closeWindow" ->
         [windowType |-> Str("screen-picker"), winKey |-> Str("k")]
    [] c = "openScreenSharingIndicator" ->
         [displayId |-> Str("0"), id |-> Num(1), streamId |-> Str("s")]
    [] c = "downloadManagerAction" ->
         [type |-> Str("open"), path |-> Str("/downloads/f")]
    [] c = "openDownloadedItem" -> [id |-> Str("d1")]
    [] c = "showDownloadedItem" -> [id |-> Str("d1")]
    [] c = "setIsInMeeting" -> [isInMeeting |-> Bool(FALSE)]
    [] c = "memoryInfo" -> [memoryInfo |-> Obj([rss |-> Num(1)])]
    [] c = "setCloudConfig" -> [cloudConfig |-> Obj([isCustomTitleBar |-> Str("ENABLED")])]
    [] c = "setIsMana" -> [isMana |-> Bool(TRUE)]
    [] c = "showNotification" ->
         [notificationOpts |-> Obj([id |-> Num(1), title |-> Str("title A"),
                                    body |-> Str("body A"),
                                    data |-> Str("data A"),
                                    flash |-> Bool(FALSE)])]
    [] c = "closeNotification" -> [notificationId |-> Num(1)]
    [] c = "setZoomLevel" -> [zoomLevel |-> Num(1)]
    [] c = "aboutAppClipBoardData" ->
         [clipboard |-> Str("about"), clipboardType |-> Str("clipboard")]
    [] c = "browserLogin" ->
         [isPodConfigured |-> Bool(FALSE),
          newPodUrl |-> Addr(<<"acme", "symphony", "com">>),
          browserLoginAutoConnect |-> Bool(TRUE)]
    [] c = "handleSwiftSearchMessageEvents" -> [swiftSearchData |-> Str("q")]
    [] c = "connectCloud9Pipe" -> [pipe |-> Str("pipe1")]
    [] c = "writeCloud9Pipe" -> [data |-> Bytes(<<81, 7>>)]
    [] c = "checkForUpdates" -> [autoUpdateTrigger |-> Str("MANUAL")]
    [] c = "getSources" ->
         [types |-> Arr(<<Str("screen")>>),
          thumbnailSize |-> Obj([width |-> Num(1)])]
    [] c = "getNativeWindowHandle" -> [windowName |-> Str("main")]
    [] OTHER -> EmptyObject

\* a value of another type than x
WrongVal(x) == IF x.t = "string" THEN Num(7) ELSE Str("oops")
WrongFields(c) ==
  [k \in DOMAIN GoodFields(c) |-> WrongVal(GoodFields(c)[k])]

Tagged(c, fields) == [cmd |-> Str(c)] @@ fields
WithField(m, k, v) == [f \in DOMAIN m |-> IF f = k THEN v ELSE m[f]]
Good(c) == Tagged(c, GoodFields(c))

\* messages that differ from Good(c) in one field only
Variants ==
  LET note == GoodFields("showNotification").notificationOpts.o
      src == GoodFields("openScreenPickerWindow").sources.a[1].o
      logs == GoodFields("sendLogs").logs.o
      Note(k, v) == WithField(Good("showNotification"), "notificationOpts",
                              Obj(WithField(note, k, v)))
  IN {Note("title", Str("title B")), Note("body", Str("body B")),
      Note("data", Str("data B")), Note("flash", Bool(TRUE)),
      WithField(Good("badgeDataUrl"), "dataUrl", Str("data:image/png;B")),
      WithField(Good("badgeDataUrl"), "count", Num(0)),
      WithField(Good("openScreenPickerWindow"), "sources",
                Arr(<<Obj(WithField(src, "thumbnail", Str("thumbnail B")))>>)),
      WithField(Good("openScreenPickerWindow"), "sources", Arr(<<Undef>>)),
      WithField(Good("sendLogs"), "logs",
                Obj(WithField(logs, "logFiles", Arr(<<Str("log line B")>>)))),
      WithField(Good("writeCloud9Pipe"), "data", Bytes(<<82, 7>>)),
      WithField(Good("writeCloud9Pipe"), "data", Bytes(<<81>>)),
      WithField(Good("writeCloud9Pipe"), "data", Bytes(<<81, 7, 255, 0>>)),
      WithField(Good("isOnline"), "isOnline", Bool(TRUE)),
      WithField(Good("setIsMana"), "isMana", Bool(FALSE)),
      WithField(Good("setIsInMeeting"), "isInMeeting", Bool(TRUE)),
      WithField(Good("bringToFront"), "reason", Str("other")),
      WithField(Good("browserLogin"), "isPodConfigured", Bool(TRUE)),
      WithField(Good("browserLogin"), "newPodUrl",
                Addr(<<"eu", "pod", "symphony", "com">>))}

\* messages whose cmd no case of either switch names, or that have no cmd
UnknownMsgs ==
  {[cmd |-> Str("noSuchCommand")],
   [cmd |-> Num(7), isMana |-> Bool(TRUE)],
   [cmd |-> Str("noSuchCommand"), isOnline |-> Bool(FALSE), isMana |-> Bool(TRUE),
    windowName |-> Str("main")],
   [isOnline |-> Bool(FALSE)]}

MsgsOf(cmds) ==
  UNION {{Good(c), Tagged(c, EmptyObject), Tagged(c, WrongFields(c))} : c \in cmds}

OnMsgs == MsgsOf(OnCmds \cup HandleCmds) \cup Variants \cup UnknownMsgs \cup {NoArg}
HandleMsgs ==
  MsgsOf(HandleCmds \cup {"isOnline", "openScreenSnippet", "browserLogin"})
    \cup UnknownMsgs \cup {NoArg}
\* the well-formed browserLogin messages
LoginMsgs == {m \in {Good("browserLogin")} \cup Variants :
                CmdOf(m) = "browserLogin"}

Senders == ValidSenders \cup {"rogue"}

\* ------------------------------------------------------ dispatch actions
Outcome(threw, returned, handler) ==
  [threw |-> threw, returned |-> returned, handler |-> handler]
Dropped == Outcome(FALSE, Undef, "none")
Threw == Outcome(TRUE, Undef, "none")
External(what) == [t |-> "external", of |-> what]

\* the stages of a listener: the isValidWindow / isValidView test, the
\* `if (!arg)` guard, logApiCallParams(arg) having written its record, and
\* the case of the switch that ran
SenderCheck == [step |-> "senderCheck", cmd |-> ""]
ArgCheck == [step |-> "argCheck", cmd |-> ""]
LogRecord == [step |-> "log", cmd |-> ""]
HandlerRan(c) == [step |-> "handler", cmd |-> c]
\* switch (arg.cmd): the case of the tag runs, and no case for an unknown tag
SwitchSteps(c, known) == IF c \in known THEN <<HandlerRan(c)>> ELSE <<>>

Received(channel, sender, arg) ==
  [channel |-> channel, sender |-> sender, arg |-> arg, n |-> last.n + 1]

\* logger.error(`... invalid window try to perform action, ignoring action`,
\* arg.cmd): reading arg.cmd of an absent payload is a TypeError
InvalidWindowLog(arg) ==
  [level |-> "error", cmd |-> CmdOf(arg),
   props |-> [text |-> Str("invalid window try to perform action, ignoring action")]]
NoArgsLog ==
  [level |-> "error", cmd |-> "undefined",
   props |-> [text |-> Str("no args received. Unable to handle API call.")]]

\* the switch of ipcMain.on, lines 122-475, after logApiCallParams(arg)
HandlerOn(sender, arg) ==
  LET c == CmdOf(arg) IN
  IF c = "openScreenSnippet" THEN
    /\ Capture(sender)
    /\ log' = <<logApiCallParams(arg)>>
    /\ calls' = <<>>
    /\ UNCHANGED <<windowVars, loginVars>>
  ELSE IF c = "closeScreenSnippet" THEN
    /\ IF platform = "win" THEN CancelCapture ELSE UNCHANGED captureVars
    /\ log' = <<logApiCallParams(arg)>>
    /\ calls' = <<>>
    /\ UNCHANGED <<windowVars, loginVars>>
  ELSE IF c = "browserLogin" THEN
    /\ BrowserLogin(arg)
    /\ log' = <<logApiCallParams(arg), BrowserLoginLog(arg)>>
    /\ calls' = <<>>
    /\ UNCHANGED <<windowVars, captureVars>>
  ELSE
    /\ HandlerState(arg)
    /\ isMana' = IF c = "setIsMana" /\ TypeOf(Get(arg, "isMana")) = "boolean"
                 THEN arg.isMana.b ELSE isMana
    /\ log' = <<logApiCallParams(arg)>> \o HandlerLog(arg)
    /\ calls' = HandlerCalls(sender, arg)
    /\ UNCHANGED <<captureRest, loginVars>>

\* ipcMain.on(apiName.symphonyApi, ..), lines 98-477
DispatchOn(sender, arg) ==
  /\ last' = Received("on", sender, arg)
  /\ IF sender \notin ValidSenders THEN
       /\ IF arg = NoArg
          THEN log' = <<>> /\ outcome' = Threw
          ELSE log' = <<InvalidWindowLog(arg)>> /\ outcome' = Dropped
       /\ steps' = <<SenderCheck>>
       /\ calls' = <<>>
       /\ UNCHANGED <<windowVars, captureVars, loginVars>>
     ELSE IF arg = NoArg THEN
       /\ log' = <<NoArgsLog>>
       /\ outcome' = Dropped
       /\ steps' = <<SenderCheck, ArgCheck>>
       /\ calls' = <<>>
       /\ UNCHANGED <<windowVars, captureVars, loginVars>>
     ELSE IF LogThrows(arg) THEN
       /\ log' = <<>>
       /\ outcome' = Threw
       /\ steps' = <<SenderCheck, ArgCheck>>
       /\ calls' = <<>>
       /\ UNCHANGED <<windowVars, captureVars, loginVars>>
     ELSE
       /\ outcome' = Outcome(FALSE,
                       IF CmdOf(arg) = "getConfigUrl" THEN globalConfigURL
                       ELSE Undef,
                       IF CmdOf(arg) \in OnCmds THEN CmdOf(arg) ELSE "none")
       /\ steps' = <<SenderCheck, ArgCheck, LogRecord>>
                     \o SwitchSteps(CmdOf(arg), OnCmds)
       /\ HandlerOn(sender, arg)

\* the value the switch of ipcMain.handle returns, lines 499-546
HandleReturn(arg) ==
  LET c == CmdOf(arg) IN
  CASE c = "getCurrentOriginUrl" ->
         IF mainWindowExists THEN Str(mainOrigin) ELSE Undef
    [] c = "isAeroGlassEnabled" ->
         External("systemPreferences.isAeroGlassEnabled")
    [] c = "getMediaAccessStatus" ->
         External("systemPreferences.getMediaAccessStatus")
    [] c = "getSources" -> External("desktopCapturer.getSources")
    [] c = "getNativeWindowHandle" ->
         IF Get(arg, "windowName") = Str("main") /\ mainWindowExists
         THEN External("getContentWindowHandle") ELSE Undef
    [] c = "getCitrixMediaRedirectionStatus" ->
         External("getCitrixMediaRedirectionStatus")
    [] OTHER -> Undef

HandleCalls(arg, focused) ==
  LET c == CmdOf(arg) IN
  CASE c = "showScreenSharePermissionDialog" /\ focused ->
         <<Call("dialog.showMessageBox", <<>>)>>
    [] c = "getSources" ->
         <<Call("desktopCapturer.getSources",
                <<Get(arg, "types"), Get(arg, "thumbnailSize")>>)>>
    [] OTHER -> <<>>

\* ipcMain.handle(apiName.symphonyApi, ..), lines 479-548; focused: whether
\* BrowserWindow.getFocusedWindow() yields a live window
DispatchHandle(sender, arg, focused) ==
  /\ last' = Received("handle", sender, arg)
  /\ IF sender \notin ValidSenders THEN
       /\ IF arg = NoArg
          THEN log' = <<>> /\ outcome' = Threw
          ELSE log' = <<InvalidWindowLog(arg)>> /\ outcome' = Dropped
       /\ steps' = <<SenderCheck>>
       /\ calls' = <<>>
     ELSE IF arg = NoArg THEN
       /\ log' = <<>>
       /\ outcome' = Dropped
       /\ steps' = <<SenderCheck, ArgCheck>>
       /\ calls' = <<>>
     ELSE
       /\ log' = <<>>
       /\ outcome' = Outcome(FALSE, HandleReturn(arg),
                       IF CmdOf(arg) \in HandleCmds THEN CmdOf(arg) ELSE "none")
       /\ steps' = <<SenderCheck, ArgCheck>>
                     \o SwitchSteps(CmdOf(arg), HandleCmds)
       /\ calls' = HandleCalls(arg, focused)
  /\ UNCHANGED <<windowVars, captureVars, loginVars>>

\* the state when the application has started and no message has arrived:
\* the fields of ScreenSnippet (lines 26-55), the flags of windowHandler and
\* the module state of main-api-handler (lines 81-91), in an environment drawn
\* from the given platforms, main window states and stored configurations
InitIn(platforms, manas, windows, onTops, cmdUrls, userUrls) ==
  /\ platform \in platforms
  /\ isMana \in manas
  /\ mainWindowExists \in windows
  /\ alwaysOnTop \in onTops
  /\ aotBefore = alwaysOnTop
  /\ procs = <<>>
  /\ files = {}
  /\ snippingWindow = 0
  /\ listeners = <<>>
  /\ sent = <<>>
  /\ outputFileName = 0
  /\ captureUtilArgs = NoArgs
  /\ child = 0
  /\ focusedWindow = 0
  /\ shouldUpdateAlwaysOnTop = FALSE
  /\ attempts = <<>>
  /\ isOnline = TRUE
  /\ isWebPageLoading = TRUE
  /\ isLoggedIn = FALSE
  /\ calls = <<>>
  /\ log = <<>>
  /\ outcome = Dropped
  /\ steps = <<>>
  /\ last = [channel |-> "none", sender |-> "none", arg |-> NoArg, n |-> 0]
  /\ urlFromCmd \in cmdUrls
  /\ userConfig \in {[browserLoginAutoConnect |-> Bool(FALSE), url |-> u] :
                      u \in userUrls}
  /\ formattedPodUrl = ""
  /\ loginUrl = ""
  /\ proxyDetails = [username |-> "", password |-> "", hostname |-> "",
                     retries |-> 0]
  /\ credentialsPromise = 0
  /\ resolutionCallback = 0
  /\ promises = <<>>
  /\ probes = <<>>
  /\ prompts = <<>>
  /\ mainWebContents = IF mainWindowExists THEN "live" ELSE "none"
  /\ mainOrigin = ""
  /\ loaded = <<>>
  /\ opened = <<>>

\* getCommandLineArgs(process.argv, '--url=', false) when the flag is given
UrlArgument == [t |-> "string", prefix |-> "--url=",
                labels |-> <<"cli", "symphony", "com">>]
StoredUserUrl == Addr(<<"my", "symphony", "com">>)

InitCapture == InitIn(Platforms, BOOLEAN, BOOLEAN, BOOLEAN, {Undef}, {Undef})
InitDispatch == InitIn({"win", "linux"}, {FALSE}, {TRUE}, {TRUE}, {Undef}, {Undef})
InitLogin ==
  InitIn({"win"}, {TRUE}, {TRUE}, {FALSE}, {Undef, UrlArgument},
         {Undef, StoredUserUrl})

\* ---------------------------------------------------------- specifications
\* the capture session on its own: capture(), cancelCapture() and
\* killChildProcess() called directly, the dispatcher and the login flow idle
NextCapture ==
  \/ \E w \in CaptureSenders :
       /\ Len(attempts) < MaxCalls
       /\ Capture(w) /\ UNCHANGED otherThanCapture
  \/ /\ Len(attempts) < MaxCalls
     /\ CancelCapture /\ UNCHANGED otherThanCapture
  \/ KillChildProcess /\ UNCHANGED otherThanCapture
  \/ \E p \in DOMAIN procs, wrote \in BOOLEAN :
       ProcExit(p, wrote) /\ UNCHANGED otherThanCapture
  \/ \E p \in DOMAIN procs : ProcKilled(p) /\ UNCHANGED otherThanCapture
  \/ \E i \in DOMAIN attempts : ReadDone(i) /\ UNCHANGED otherThanCapture
  \/ UploadSnippet /\ UNCHANGED otherThanCapture

SpecCapture == InitCapture /\ [][NextCapture]_vars

\* the dispatcher: up to MaxDispatches messages on either channel, each from
\* any sender and with any payload of the universe
NextDispatch ==
  \/ \E sender \in Senders, arg \in OnMsgs :
       /\ last.n < MaxDispatches
       /\ DispatchOn(sender, arg)
  \/ \E sender \in Senders, arg \in HandleMsgs, focused \in BOOLEAN :
       /\ last.n < MaxDispatches
       /\ DispatchHandle(sender, arg, focused)

SpecDispatch == InitDispatch /\ [][NextDispatch]_vars

\* the login flow: browserLogin messages from the main window, the probes'
\* responses, proxy challenges and credential prompts
NextLogin ==
  \/ \E arg \in LoginMsgs :
       /\ Len(probes) < MaxProbes
       /\ DispatchOn("window", arg)
  \/ \E p \in DOMAIN probes, authType \in AuthTypes :
       ProbeSuccess(p, authType) /\ UNCHANGED otherThanLogin
  \/ \E p \in DOMAIN probes, err \in ProbeErrors :
       ProbeFail(p, err) /\ UNCHANGED otherThanLogin
  \/ \E k \in DOMAIN prompts, cred \in Credentials :
       /\ Len(probes) < MaxProbes
       /\ SubmitCredentials(k, cred) /\ UNCHANGED otherThanLogin
  \/ \E p \in DOMAIN probes, host \in ProxyHosts :
       ProbeChallenge(p, host) /\ UNCHANGED otherThanLogin
  \/ DestroyMainWebContents /\ UNCHANGED otherThanLoginAndWindow

SpecLogin == InitLogin /\ [][NextLogin]_vars

\* the login flow under its scheduling: browserLogin messages for one pod, and
\* the events the flow waits for. A fetch that is in flight settles (then or
\* catch runs), and a basic-auth window that is open is answered: both are
\* weakly fair, per probe and per prompt. The proxy is free to challenge a
\* probe or not.
InitAttempts ==
  InitIn({"win"}, {TRUE}, {TRUE}, {FALSE}, {Undef}, {StoredUserUrl})

\* one response of each kind: a success, a failure that asks for proxy
\* credentials, a failure that is swallowed
AttemptAuthTypes == {"sso"}
AttemptErrors == {"PROXY_AUTH_FAILED", "ENOTFOUND"}
AttemptCredentials == {[username |-> "alice", password |-> "pw1"]}

ProbeResponds(p) ==
  /\ p \in DOMAIN probes
  /\ \/ \E authType \in AttemptAuthTypes : ProbeSuccess(p, authType)
     \/ \E err \in AttemptErrors : ProbeFail(p, err)
  /\ UNCHANGED otherThanLogin

PromptAnswered(k) ==
  /\ k \in DOMAIN prompts
  /\ Len(probes) < MaxAttemptProbes
  /\ \E cred \in AttemptCredentials : SubmitCredentials(k, cred)
  /\ UNCHANGED otherThanLogin

NextAttempts ==
  \/ /\ Len(probes) < MaxAttemptProbes
     /\ last.n < MaxAttemptLogins
     /\ DispatchOn("window", Good("browserLogin"))
  \/ \E p \in DOMAIN probes : ProbeResponds(p)
  \/ \E k \in DOMAIN prompts : PromptAnswered(k)
  \/ \E p \in DOMAIN probes, host \in ProxyHosts :
       ProbeChallenge(p, host) /\ UNCHANGED otherThanLogin

SpecAttempts ==
  /\ InitAttempts
  /\ [][NextAttempts]_vars
  /\ \A p \in 1..MaxAttemptProbes : WF_vars(ProbeResponds(p))
  /\ \A k \in 1..MaxAttemptProbes : WF_vars(PromptAnswered(k))

\* ------------------------------------------------ claims, capture session
Live(ps) == {p \in DOMAIN ps : ps[p].status = "running" /\ ~ps[p].signalled}
Finished(i) == attempts[i].pc = "done"
AllFinished == attempts # <<>> /\ \A i \in DOMAIN attempts : Finished(i)

\* C1: whenever a capture spawns its tool while the tool of an earlier
\* capture() is still running, that earlier process has been sent the kill
\* signal by the time the new one is spawned.
C1_KillBeforeSpawn ==
  [][(Len(procs') = Len(procs) + 1 /\ procs'[Len(procs')].kind = "capture")
       => \A p \in DOMAIN procs :
            (procs[p].kind = "capture" /\ procs[p].status = "running")
              => procs'[p].signalled]_vars

\* C2: at most one spawned process is live (running and not yet sent a kill
\* signal) in every reachable state.
C2_AtMostOneLive == Cardinality(Live(procs)) <= 1

\* C3: once every capture attempt has finished, the main window's
\* always-on-top setting is the one it had before the captures began.
C3_AlwaysOnTopRestored == AllFinished => alwaysOnTop = aotBefore

\* C4: the temp output file of a finished capture attempt no longer exists.
C4_TempFileDeleted ==
  \A i \in CaptureIds : Finished(i) => attempts[i].file \notin files

\* --------------------------------------------------- claims, dispatcher
\* a step that dispatches a message: the dispatch count of `last` grows
Dispatched == last' # last
FromValidSender(m) == m.sender \in ValidSenders
KnownCmds(channel) == IF channel = "on" THEN OnCmds ELSE HandleCmds
UnknownCmd(m) == m.arg # NoArg /\ CmdOf(m.arg) \notin KnownCmds(m.channel)

\* C5: a message on either channel from a sender that is neither a window nor
\* a view the host created, whatever its payload (an absent payload
\* included), runs no handler, changes no state, sends no response and raises
\* no exception: the dispatcher only writes one error record.
C5_InvalidSenderDropped ==
  [][(Dispatched /\ ~FromValidSender(last'))
       => /\ UNCHANGED <<captureVars, windowVars, loginVars>>
          /\ calls' = <<>>
          /\ outcome' = Dropped
          /\ Len(log') = 1 /\ log'[1].level = "error"]_vars

\* C6: a message from a valid sender whose cmd is not a tag the channel's
\* switch knows leaves the capture session, the window flags and the login
\* flow unchanged, makes no collaborator call, raises nothing and sends no
\* response (the invoke listener returns undefined).
C6_UnknownCmdIgnored ==
  [][(Dispatched /\ FromValidSender(last') /\ UnknownCmd(last'))
       => /\ UNCHANGED <<captureVars, windowVars, loginVars>>
          /\ calls' = <<>>
          /\ outcome' = Dropped]_vars

\* an unknown command has been dispatched on the invoke channel, as the second
\* message, while a capture started by the first message is in flight
C6_UnknownCmdDispatched ==
  /\ FromValidSender(last) /\ UnknownCmd(last)
  /\ last.channel = "handle" /\ last.n = 2
  /\ attempts # <<>>

\* a known tag of the fire-and-forget channel whose payload lacks a field the
\* case reads, or carries it with another type
Malformed(arg) ==
  /\ arg # NoArg
  /\ CmdOf(arg) \in OnCmds
  /\ \E k \in DOMAIN GoodFields(CmdOf(arg)) :
       Get(arg, k).t # GoodFields(CmdOf(arg))[k].t

\* C7: for a known tag, a message from a valid sender whose expected fields
\* are missing or of the wrong type makes the dispatcher skip the handler's
\* action: no state changes, no collaborator is called, and nothing is thrown
\* (also not by the logging step before the switch).
C7_MalformedSkipped ==
  [][(Dispatched /\ FromValidSender(last') /\ last'.channel = "on"
        /\ Malformed(last'.arg))
       => /\ ~outcome'.threw
          /\ UNCHANGED <<captureVars, windowVars, loginVars>>
          /\ calls' = <<>>]_vars

\* the value s occurs in the value x, at any depth
RECURSIVE Carries(_, _)
Carries(x, s) ==
  \/ x = s
  \/ x.t = "object" /\ \E k \in DOMAIN x.o : Carries(x.o[k], s)
  \/ x.t = "array" /\ \E i \in DOMAIN x.a : Carries(x.a[i], s)
LogCarries(s) ==
  \E i \in DOMAIN log : \E k \in DOMAIN log[i].props :
    Carries(log[i].props[k], s)

\* the notification title, body and data of a showNotification message, the
\* raw (non-empty) payload of a writeCloud9Pipe message
Secrets(arg) ==
  IF CmdOf(arg) = "showNotification" THEN
    {Get(Spread(Get(arg, "notificationOpts")), k) :
       k \in {"title", "body", "data"}} \ {Undef, Hidden}
  ELSE IF CmdOf(arg) = "writeCloud9Pipe" /\ BufferFromOk(Get(arg, "data")) THEN
    {arg.data} \ {Bytes(<<>>)}
  ELSE {}

\* C8: no property of a log record written for a showNotification message
\* holds the message's notification title, body or data, and none written
\* for a writeCloud9Pipe message holds the raw (not base64-encoded) payload.
C8_NoSecretInLog == \A s \in Secrets(last.arg) : ~LogCarries(s)

\* a writeCloud9Pipe message with a payload has been logged
C8_PipePayloadLogged ==
  /\ FromValidSender(last) /\ last.channel = "on"
  /\ CmdOf(last.arg) = "writeCloud9Pipe"
  /\ Secrets(last.arg) # {}
  /\ Len(log) = 1 /\ log[1].props.data = Bytes(Base64(last.arg.data.bytes))

\* the message with its sensitive fields (of the type the field has when it
\* carries a payload) replaced by one fixed value; pipeToo: whether the
\* Cloud9 pipe payload counts as sensitive
Erase(arg, pipeToo) ==
  LET c == CmdOf(arg)
      IsA(k, ty) == Get(arg, k).t = ty
  IN
  CASE c = "showNotification" /\ IsA("notificationOpts", "object") ->
         WithField(arg, "notificationOpts",
           Obj([k \in DOMAIN arg.notificationOpts.o |->
                  IF k \in {"title", "body", "data"} THEN Hidden
                  ELSE arg.notificationOpts.o[k]]))
    [] c = "badgeDataUrl" /\ IsA("dataUrl", "string") ->
         WithField(arg, "dataUrl", Hidden)
    [] c = "openScreenPickerWindow" /\ IsA("sources", "array") ->
         WithField(arg, "sources",
           Arr([i \in DOMAIN arg.sources.a |->
                  IF arg.sources.a[i].t = "object"
                  THEN Obj([k \in DOMAIN arg.sources.a[i].o |->
                              IF k = "thumbnail" THEN Hidden
                              ELSE arg.sources.a[i].o[k]])
                  ELSE arg.sources.a[i]]))
    [] c = "sendLogs" /\ IsA("logs", "object") ->
         WithField(arg, "logs",
           Obj([k \in DOMAIN arg.logs.o |->
                  IF k = "logFiles" THEN Hidden ELSE arg.logs.o[k]]))
    [] c = "writeCloud9Pipe" /\ pipeToo /\ IsA("data", "string") ->
         WithField(arg, "data", Hidden)
    [] OTHER -> arg

DifferOnlyInSensitive(a, b, pipeToo) ==
  /\ a # b
  /\ CmdOf(a) = CmdOf(b)
  /\ Erase(a, pipeToo) = Erase(b, pipeToo)

\* the log records the fire-and-forget listener writes for arg
LogOf(arg) == <<logApiCallParams(arg)>> \o HandlerLog(arg)

SameLogAsTwins(pipeToo) ==
  (FromValidSender(last) /\ last.channel = "on" /\ ~outcome.threw)
    => \A m \in OnMsgs :
         (DifferOnlyInSensitive(last.arg, m, pipeToo) /\ ~LogThrows(m))
           => LogOf(m) = log

\* C9 as stated: two messages with the same tag that differ only in a
\* sensitive field (notification title/body/data, badge data URL, Cloud9 pipe
\* payload, screen-source thumbnails, log file contents) get identical log
\* records.
C9_SensitiveFieldsPlaceholder == SameLogAsTwins(TRUE)

\* C9, amended: two messages with the same tag that differ only in the
\* notification title/body/data, the badge data URL, a screen-source
\* thumbnail or the log file contents get identical log records (the Cloud9
\* pipe payload is logged base64-encoded, not as a placeholder).
C9_PlaceholderExceptPipe == SameLogAsTwins(FALSE)

\* a message has been logged that has a twin differing only in a thumbnail
C9_TwinLogged ==
  /\ FromValidSender(last) /\ last.channel = "on" /\ ~outcome.threw
  /\ CmdOf(last.arg) = "openScreenPickerWindow"
  /\ log # <<>>
  /\ \E m \in OnMsgs : DifferOnlyInSensitive(last.arg, m, FALSE)

\* ---------------------------------------------------- claims, login flow
\* the step in which probe p gets its successful response
Succeeds(p) == probes[p].status # "done" /\ probes'[p].status = "done"
OpensLoginUrl ==
  /\ opened' = Append(opened, loginUrl)
  /\ UNCHANGED <<loaded, mainOrigin>>
LoadsOrigin ==
  /\ loaded' = Append(loaded, formattedPodUrl)
  /\ mainOrigin' = formattedPodUrl
  /\ UNCHANGED opened

\* C10 as stated: a probe that succeeds with authenticationType 'sso' opens
\* the computed SSO login URL externally and neither loads the origin nor
\* changes the trusted origin; a probe that succeeds with any other type
\* loads the canonical origin into the main view and records it as trusted.
C10_SsoOpensElseLoads ==
  [][\A p \in DOMAIN probes :
       Succeeds(p) => IF probes'[p].result = "sso" THEN OpensLoginUrl
                      ELSE LoadsOrigin]_vars

\* C10, amended: as stated for 'sso'; with any other type the origin is
\* loaded and recorded as trusted provided the main web contents exist and
\* are not destroyed, and otherwise nothing is loaded, recorded or opened.
C10_SsoOpensElseLoadsIfLive ==
  [][\A p \in DOMAIN probes :
       Succeeds(p) => IF probes'[p].result = "sso" THEN OpensLoginUrl
                      ELSE IF mainWebContents = "live" THEN LoadsOrigin
                      ELSE UNCHANGED <<loaded, mainOrigin, opened>>]_vars

\* one probe has succeeded with 'sso' and another with a different type, and
\* both an external open and a load of the origin have happened
C10_BothOutcomesSeen ==
  /\ \E p \in DOMAIN probes :
       probes[p].status = "done" /\ probes[p].result = "sso"
  /\ \E p \in DOMAIN probes :
       probes[p].status = "done" /\ probes[p].result = "password"
  /\ opened # <<>>
  /\ loaded # <<>>

\* the step in which probe p fails with a proxy authentication failure
FailsWithProxyAuth(p) ==
  /\ probes[p].status = "pending"
  /\ probes'[p].status = "failed"
  /\ probes'[p].result = "PROXY_AUTH_FAILED"
\* the step in which credentials are submitted to prompt k
Answers(k) == ~prompts[k].answered /\ prompts'[k].answered

\* C11: a probe failure classified as proxy-auth-failure creates exactly one
\* new pending credential promise and exactly one credential prompt (for that
\* probe), and submitting credentials to a prompt resolves the promise created
\* with that prompt, exactly once.
C11_OnePromptOnePromiseResolvedOnce ==
  [][/\ \A p \in DOMAIN probes :
          FailsWithProxyAuth(p)
            => /\ Len(promises') = Len(promises) + 1
               /\ promises'[Len(promises')].resolved = 0
               /\ Len(prompts') = Len(prompts) + 1
               /\ prompts'[Len(prompts')].probe = p
               /\ prompts'[Len(prompts')].promise = Len(promises')
     /\ \A k \in DOMAIN prompts :
          Answers(k)
            => /\ promises[prompts[k].promise].resolved = 0
               /\ promises'[prompts[k].promise].resolved = 1]_vars

\* the step creates a credential prompt
PromptCreated == Len(prompts') = Len(prompts) + 1

\* C12 as stated: the retry counter grows by exactly 1 per credential cycle,
\* and it grows when the credentials are received: creating a prompt leaves
\* the counter unchanged, and answering one increments it.
C12_RetriesCountedOnSubmission ==
  [][/\ PromptCreated => proxyDetails'.retries = proxyDetails.retries
     /\ \A k \in DOMAIN prompts :
          Answers(k) => proxyDetails'.retries = proxyDetails.retries + 1]_vars

\* C12, amended: the retry counter grows by exactly 1 per credential cycle,
\* in the step that creates the credential prompt; receiving the credentials
\* (and every other step) leaves the counter unchanged.
C12_RetriesCountedOnPrompt ==
  [][IF PromptCreated
     THEN proxyDetails'.retries = proxyDetails.retries + 1
     ELSE proxyDetails'.retries = proxyDetails.retries]_vars

\* two credential cycles have begun, the first prompt has been answered and
\* the second has not, and the counter stands at two
C12_SecondCycleUnanswered ==
  /\ Len(prompts) = 2
  /\ prompts[1].answered /\ ~prompts[2].answered
  /\ proxyDetails.retries = 2

\* C13: when credentials are submitted to the prompt of a probe that failed
\* with proxy-auth-failure, the probe issued by the submission targets the
\* canonical origin of the failed probe, whatever was dispatched in between.
C13_ReprobeSameOrigin ==
  [][\A k \in DOMAIN prompts :
       (Answers(k) /\ probes[prompts[k].probe].result = "PROXY_AUTH_FAILED")
         => /\ Len(probes') = Len(probes) + 1
            /\ probes'[Len(probes')].origin
                 = probes[prompts[k].probe].origin]_vars

\* the step in which probe p fails with an error that is neither a
\* proxy-auth failure nor retry exhaustion during a proxy-login attempt
FailsOtherwise(p) ==
  /\ probes[p].status = "pending"
  /\ probes'[p].status = "failed"
  /\ probes'[p].result # "PROXY_AUTH_FAILED"
  /\ ~(probes'[p].result = "ERR_TOO_MANY_RETRIES" /\ probes[p].proxyLogin)

\* C14: a probe failure that is neither a proxy-auth failure nor retry
\* exhaustion during a proxy-login attempt (retry exhaustion without the
\* proxy-login flag included) creates no prompt and no pending promise,
\* leaves the stored credentials and the retry counter unchanged, issues no
\* further probe and changes nothing else of the login flow.
C14_OtherFailuresSwallowed ==
  [][\A p \in DOMAIN probes :
       FailsOtherwise(p)
         => /\ UNCHANGED <<prompts, promises, credentialsPromise,
                           resolutionCallback, proxyDetails>>
            /\ Len(probes') = Len(probes)
            /\ \A q \in DOMAIN probes : q # p => probes'[q] = probes[q]
            /\ UNCHANGED <<formattedPodUrl, loginUrl, userConfig, loaded,
                           opened, mainOrigin, mainWebContents>>
            /\ UNCHANGED otherThanLogin]_vars

\* a probe without the proxy-login flag has failed with retry exhaustion, and
\* a probe has failed with a name-resolution error
C14_OtherFailuresSeen ==
  /\ \E p \in DOMAIN probes :
       /\ probes[p].status = "failed" /\ ~probes[p].proxyLogin
       /\ probes[p].result = "ERR_TOO_MANY_RETRIES"
  /\ \E p \in DOMAIN probes :
       probes[p].status = "failed" /\ probes[p].result = "ENOTFOUND"

\* C15: as long as no credentials have been supplied, at most one credential
\* prompt and at most one pending credential promise exist, however many
\* login attempts have failed needing proxy credentials.
C15_OnePromptOutstanding ==
  (\A k \in DOMAIN prompts : ~prompts[k].answered)
    => /\ Len(prompts) <= 1
       /\ Cardinality({i \in DOMAIN promises : promises[i].resolved = 0}) <= 1

\* a step in which the dispatcher runs the browserLogin case
LoginDispatched ==
  /\ Dispatched
  /\ last'.channel = "on" /\ FromValidSender(last')
  /\ last'.arg # NoArg /\ CmdOf(last'.arg) = "browserLogin"
  /\ ~outcome'.threw

\* the address the claimed priority order selects in a browserLogin step
AddressByPriority ==
  IF urlFromCmd # Undef THEN Addr(urlFromCmd.labels)
  ELSE IF userConfig'.url # Undef THEN userConfig'.url
  ELSE globalConfigURL

\* C16: the probe a browserLogin issues goes to the canonical origin of the
\* command-line --url value when one is given, otherwise of the url stored in
\* the user config when one is set, otherwise of the global config's url.
C16_AddressPriority ==
  [][LoginDispatched
       => /\ Len(probes') = Len(probes) + 1
          /\ probes'[Len(probes')].origin =
               FormatPodUrl(AddressByPriority)]_vars

\* a browserLogin has been served from the command line although the user
\* config holds a url of its own
C16_CommandLineOverUserConfig ==
  /\ urlFromCmd # Undef
  /\ userConfig.url # Undef /\ userConfig.url # Addr(urlFromCmd.labels)
  /\ probes # <<>>
  /\ CmdOf(last.arg) = "browserLogin"
  /\ formattedPodUrl = "https://cli.symphony.com"

\* C17: the canonical origin a browserLogin computes for an address that
\* parses into subdomain s, domain d and top-level domain t is exactly
\* "https://" s "." d t, each component once; for acme.symphony.com the
\* components are "acme", "symphony" and ".com" and the origin is exactly
\* "https://acme.symphony.com".
C17_OriginReassembled ==
  [][LoginDispatched
       => LET a == AddressByPriority
              p == parseDomain(a)
          IN /\ formattedPodUrl'
                  = "https://" \o p.subdomain \o "." \o p.domain \o p.tld
             /\ a = Addr(<<"acme", "symphony", "com">>)
                  => /\ p = [subdomain |-> "acme", domain |-> "symphony",
                             tld |-> ".com"]
                     /\ formattedPodUrl' = "https://acme.symphony.com"]_vars

\* a browserLogin for the address acme.symphony.com has computed its origin
C17_AcmeOriginComputed ==
  /\ last.n > 0 /\ CmdOf(last.arg) = "browserLogin"
  /\ urlFromCmd = Undef
  /\ userConfig.url = Addr(<<"acme", "symphony", "com">>)
  /\ formattedPodUrl = "https://acme.symphony.com"
  /\ probes # <<>>

\* ------------------------------------------- claims, capture error paths
\* the step in which capture attempt i finishes after its tool exited normally
\* and the output file is found missing: at the hand-off (pc "exec") or when
\* the file read settles (pc "read")
FinishesWithoutFile(i) ==
  /\ attempts[i].kind = "capture"
  /\ attempts[i].pc \in {"exec", "read"}
  /\ attempts'[i].pc = "done"
  /\ procs'[attempts[i].proc].status = "exited"
  /\ IF attempts[i].pc = "exec" THEN outputFileName \notin files'
     ELSE attempts[i].reading \notin files
\* the step sends one payload of type 'ERROR' without image data to view w
SendsError(w) ==
  /\ Len(sent') = Len(sent) + 1
  /\ sent'[Len(sent')].to = w
  /\ sent'[Len(sent')].type = "ERROR"
  /\ sent'[Len(sent')].data = 0

\* C18: when the capture tool exits normally but the output file does not
\* exist, the requesting view is sent a payload of type 'ERROR' without image
\* data and the attempt finishes, on every platform variant, the hand-off
\* variant included.
C18_MissingFileReported ==
  [][\A i \in DOMAIN attempts :
       FinishesWithoutFile(i) => SendsError(attempts[i].web)]_vars

\* C19: when the process of an in-flight capture dies of the kill signal, the
\* rejection is caught inside capture(), so that the attempt finishes, and the
\* requesting view is sent a payload of type 'ERROR'.
C19_KilledCaptureReported ==
  [][\A p \in DOMAIN procs :
       (/\ procs[p].kind = "capture"
        /\ procs[p].status = "running"
        /\ procs'[p].status = "killed")
         => /\ attempts'[Awaiting(p)].pc = "done"
            /\ SendsError(attempts[Awaiting(p)].web)]_vars

\* ------------------------------------------------ claims, dispatch order
\* C20: a message with a known tag from an accepted sender on the
\* fire-and-forget channel passes the sender check, then has its redacted log
\* record written, then runs exactly one handler, the one of its tag; a
\* message from a rejected sender gets neither a redacted log record nor a
\* handler.
C20_CheckLogHandleInOrder ==
  [][(Dispatched /\ last'.channel = "on" /\ last'.arg # NoArg)
       => IF FromValidSender(last')
          THEN CmdOf(last'.arg) \in OnCmds
                 => /\ steps' = <<SenderCheck, ArgCheck, LogRecord,
                                  HandlerRan(CmdOf(last'.arg))>>
                    /\ outcome'.handler = CmdOf(last'.arg)
                    /\ log' # <<>>
                    /\ log'[1].level = "info"
                    /\ log'[1].cmd = CmdOf(last'.arg)
          ELSE /\ \A i \in DOMAIN steps' :
                    steps'[i].step \notin {"log", "handler"}
               /\ outcome'.handler = "none"
               /\ \A i \in DOMAIN log' : log'[i].level = "error"]_vars

\* ------------------------------------------ claims, capture session state
\* no spawned process is running any more
NoProcessRunning == \A p \in DOMAIN procs : procs[p].status # "running"
\* the session fields of the Idle state: no process handle, no output path,
\* no tool arguments
SessionIdle ==
  /\ child = 0
  /\ outputFileName = 0
  /\ captureUtilArgs = NoArgs

\* C21: once every capture attempt has run to its end and its external
\* process has exited or been killed, the session is Idle again: the stored
\* process handle, output path and tool arguments are cleared, so that a later
\* capture() finds no handle. (A finished capture() takes no further step, so
\* the state it leaves behind is the state the session stays in.)
C21_IdleAfterCapture ==
  (AllFinished /\ NoProcessRunning) => SessionIdle

\* the step in which the editor window's merged image ('upload-snippet')
\* arrives: the registered listeners are consumed
MergedImageArrives == listeners # <<>> /\ listeners' = <<>>

\* C22: in the hand-off variant a merged-image message makes at most one
\* listener run: at most one final payload is delivered for it, also when
\* several captures have registered a listener before the editor window
\* emitted anything; and no capture's listener runs twice.
C22_OneDeliveryPerMergedImage ==
  [][MergedImageArrives
       => /\ Len(sent') <= Len(sent) + 1
          /\ Cardinality({i \in DOMAIN attempts :
                            attempts[i].pc = "upload"
                              /\ attempts'[i].pc = "done"}) <= 1]_vars

\* ---------------------------------------- claims, proxy authentication
\* the step issues a probe request
IssuesProbe == Len(probes') = Len(probes) + 1
\* the probe carries the proxy-authentication hook (onLogin)
HasHook(probe) == probe.proxyLogin

\* C23 as stated: a probe issued after some login attempt has suspended on a
\* credential request (a prompt has been created) carries the
\* proxy-authentication hook, the probe of a later browserLogin included; a
\* probe issued before any attempt suspended carries none.
C23_HookOnceSuspended ==
  [][IssuesProbe
       => (HasHook(probes'[Len(probes')]) <=> prompts # <<>>)]_vars

\* C23, amended: a probe carries the proxy-authentication hook exactly when
\* it is the probe re-issued by a credential submission; the probe of a
\* browserLogin carries none, whether or not an earlier attempt suspended.
C23_HookOnResubmission ==
  [][IssuesProbe
       => (HasHook(probes'[Len(probes')])
             <=> \E k \in DOMAIN prompts : Answers(k))]_vars

\* after a credential prompt was created and answered, one probe carries the
\* hook and the probe of a later browserLogin carries none
C23_LaterLoginWithoutHook ==
  /\ Len(probes) = 3
  /\ prompts # <<>> /\ prompts[1].answered
  /\ HasHook(probes[2])
  /\ ~HasHook(probes[3])
  /\ CmdOf(last.arg) = "browserLogin" /\ last.n = 2

\* the step in which the hook of probe p answers the proxy's challenge
HookAnswers(p) == probes'[p].supplied # probes[p].supplied
StoredCredentials(d) == [username |-> d.username, password |-> d.password]

\* C24: the proxy-authentication hook answers a challenge only when no
\* credential prompt is unanswered, and what it supplies are the stored
\* credentials, which are those of the latest submission.
C24_HookWaitsForCredentials ==
  [][\A p \in DOMAIN probes :
       HookAnswers(p)
         => /\ \A k \in DOMAIN prompts' : prompts'[k].answered
            /\ probes'[p].supplied = StoredCredentials(proxyDetails')]_vars

\* ------------------------------------------------- claims, termination
\* every credential prompt that was opened has been answered
AllPromptsAnswered == \A k \in DOMAIN prompts : prompts[k].answered
\* no probe is in flight or suspended in its hook: every probe has ended with
\* the main view loaded or the SSO URL opened ("done"), or with a failure
\* that was swallowed or handed to a credential prompt ("failed")
AllProbesEnded ==
  \A p \in DOMAIN probes : probes[p].status \in {"done", "failed"}

\* C25: provided every probe gets its response and every credential prompt is
\* answered in the end, every login attempt reaches a terminal state: from
\* some point on no probe is in flight or suspended any more.
C25_AttemptsTerminate ==
  ([]<>AllPromptsAnswered) => <>[]AllProbesEnded

\* ------------------------------------------ claims, proxy details kept
\* C26: the proxy retry counter never decreases (so it is never reset to 0),
\* stored credentials are never cleared, and hence only the very first
\* credential prompt is presented as a first attempt: every later prompt, the
\* first prompt of a later browserLogin included, is presented as a retry.
C26_ProxyDetailsNeverReset ==
  [][/\ proxyDetails'.retries >= proxyDetails.retries
     /\ proxyDetails.username # "" => proxyDetails'.username # ""
     /\ proxyDetails.password # "" => proxyDetails'.password # ""
     /\ \A k \in DOMAIN prompts' :
          prompts'[k].isValidCredentials <=> (k = 1)]_vars

\* credentials are stored, and the prompt of a later browserLogin (its probe
\* was not a re-issued one) has been presented as a retry
C26_LaterSessionPromptIsRetry ==
  /\ proxyDetails.username # ""
  /\ \E k \in DOMAIN prompts :
       /\ k > 1
       /\ ~probes[prompts[k].probe].proxyLogin
       /\ ~prompts[k].isValidCredentials
       /\ prompts[1].answered

\* ------------------------------------------- claims, overlapping captures
\* the step in which convertFileToData() of capture i returns and its payload
\* is sent
PayloadBuilt(i) == attempts[i].pc = "read" /\ attempts'[i].pc = "done"

\* C27: the payload delivered for a capture is built from the output file of
\* that capture, and the temp file deleted on its behalf is its own file,
\* also when a newer capture has started in the meantime.
C27_OwnFileReadAndDeleted ==
  [][\A i \in CaptureIds :
       PayloadBuilt(i)
         => /\ attempts[i].reading = attempts[i].file
            /\ sent'[Len(sent')].attempt = i
            /\ sent'[Len(sent')].data \in {0, attempts[i].file}
            /\ files \ files' \subseteq {attempts[i].file}
            /\ attempts[i].file \notin files']_vars

\* ------------------------------------------ claims, origin of a response
\* C28: when a probe succeeds, what is opened externally (for 'sso') is the
\* login URL of the origin the probe was sent to, and what is loaded into the
\* main view and recorded as trusted (otherwise) is that origin itself, also
\* when another browserLogin has changed the canonical origin meanwhile.
C28_ResponseUsesProbedOrigin ==
  [][\A p \in DOMAIN probes :
       Succeeds(p)
         => IF probes'[p].result = "sso"
            THEN opened' = Append(opened, getBrowserLoginUrl(probes[p].origin))
            ELSE mainWebContents = "live"
                   => /\ loaded' = Append(loaded, probes[p].origin)
                      /\ mainOrigin' = probes[p].origin]_vars

====
